---- MODULE Spec2Model ----
(***************************************************************************)
(* Campus Connect backend (src/app.py): the profile store kept by the      *)
(* register / update_user handlers, the read handlers get_user and         *)
(* match_for_user, and the pure scoring functions jaccard_similarity and   *)
(* match_score.                                                            *)
(*                                                                         *)
(* JSON request values are tagged records (JNull, JStr, JList), so that    *)
(* Python's None, "" and [] stay distinct.  Python floats are modelled as  *)
(* exact fractions [n, d]; within the label universes used here every      *)
(* exact score is at least 1/6 away from a rounding boundary, far more     *)
(* than the error of double arithmetic, so round() agrees on both.         *)
(***************************************************************************)
EXTENDS Integers, Sequences, FiniteSets, TLC

VARIABLES users, nupd, req, resp, others, call, ret

vars == <<users, nupd, req, resp, others, call, ret>>

(* ---------------------------------------------------------------------- *)
(* Bounds                                                                 *)
(* ---------------------------------------------------------------------- *)
MaxListLen == 3

MaxTagLen == 2

MaxUpdates == 1

(* ---------------------------------------------------------------------- *)
(* JSON / Python values                                                   *)
(* ---------------------------------------------------------------------- *)
JNull == [k |-> "null", s |-> "", l |-> <<>>]

JStr(x) == [k |-> "str", s |-> x, l |-> <<>>]

JList(x) == [k |-> "list", s |-> "", l |-> x]

\* Python truthiness of None, a str and a list.
Truthy(j) == \/ j.k = "str" /\ j.s # ""
             \/ j.k = "list" /\ j.l # <<>>

\* `v or []` for a list-or-None value.
OrEmptyList(j) == IF Truthy(j) THEN j.l ELSE <<>>

\* dict.get(key) / dict.get(key, default) on a request body.
Get(data, key, default) == IF key \in DOMAIN data THEN data[key] ELSE default

SeqsUpTo(S, n) == UNION {[1..m -> S] : m \in 0..n}

\* str.lower on the strings of the model.
Lower(s) == CASE s = "AI" -> "ai"
              [] s = "Go" -> "go"
              [] s = "INTJ" -> "intj"
              [] s = "Football" -> "football"
              [] s = "FOOTBALL" -> "football"
              [] s = "Chess" -> "chess"
              [] s = "Study Buddy" -> "study buddy"
              [] s = "Sports Partner" -> "sports partner"
              [] OTHER -> s

(* ---------------------------------------------------------------------- *)
(* Fractions standing for Python floats                                   *)
(* ---------------------------------------------------------------------- *)
Frac(n, d) == [n |-> n, d |-> d]

FracAdd(x, y) == Frac(x.n * y.d + y.n * x.d, x.d * y.d)

FracMul(x, y) == Frac(x.n * y.n, x.d * y.d)

FracEq(x, y) == x.n * y.d = y.n * x.d

FracLeq(x, y) == x.n * y.d <= y.n * x.d

FracMin(x, y) == IF FracLeq(y, x) THEN y ELSE x

\* round(x) of a non-negative float: nearest integer, a tie going to the even one.
Round(x) ==
    LET q == x.n \div x.d
        r == x.n % x.d
    IN  IF 2 * r < x.d THEN q
        ELSE IF 2 * r > x.d THEN q + 1
        ELSE IF q % 2 = 0 THEN q ELSE q + 1

(* ---------------------------------------------------------------------- *)
(* Utilities: Matching                                                    *)
(* ---------------------------------------------------------------------- *)
RECURSIVE SetOfLower(_)
\* set(map(str.lower, l))
SetOfLower(l) == IF l = <<>> THEN {}
                 ELSE {Lower(Head(l))} \cup SetOfLower(Tail(l))

\* jaccard_similarity comparing the entries as written, without str.lower.
jaccard_similarity_cased(a, b) ==
    LET la == OrEmptyList(a)
        lb == OrEmptyList(b)
        sa == {la[i] : i \in 1..Len(la)}
        sb == {lb[i] : i \in 1..Len(lb)}
        inter == Cardinality(sa \cap sb)
        union == Cardinality(sa \cup sb)
    IN  IF sa = {} /\ sb = {} THEN Frac(0, 1)
        ELSE IF union # 0 THEN Frac(inter, union) ELSE Frac(0, 1)

jaccard_similarity(a, b) ==
    LET sa == SetOfLower(OrEmptyList(a))
        sb == SetOfLower(OrEmptyList(b))
        inter == Cardinality(sa \cap sb)
        union == Cardinality(sa \cup sb)
    IN  IF sa = {} /\ sb = {} THEN Frac(0, 1)
        ELSE IF union # 0 THEN Frac(inter, union) ELSE Frac(0, 1)

(* ---------------------------------------------------------------------- *)
(* Models: User                                                           *)
(* ---------------------------------------------------------------------- *)
\* A JSON text is the sequence of its tokens.
Tok(t, s) == [t |-> t, s |-> s]

RECURSIVE DumpItems(_)
DumpItems(l) ==
    IF l = <<>> THEN <<>>
    ELSE IF Len(l) = 1 THEN <<Tok("str", l[1])>>
    ELSE <<Tok("str", Head(l)), Tok(",", "")>> \o DumpItems(Tail(l))

\* json.dumps of a list of strings.
json_dumps(l) == <<Tok("[", "")>> \o DumpItems(l) \o <<Tok("]", "")>>

RECURSIVE ParseItems(_)
ParseItems(t) ==
    IF t = <<>> THEN [ok |-> TRUE, v |-> <<>>]
    ELSE IF Head(t).t # "str" THEN [ok |-> FALSE, v |-> <<>>]
    ELSE IF Len(t) = 1 THEN [ok |-> TRUE, v |-> <<Head(t).s>>]
    ELSE IF t[2].t # "," \/ Len(t) = 2 THEN [ok |-> FALSE, v |-> <<>>]
    ELSE LET rest == ParseItems(SubSeq(t, 3, Len(t)))
         IN  [ok |-> rest.ok, v |-> <<Head(t).s>> \o rest.v]

\* json.loads of a text holding a list of strings; ok = FALSE when it raises.
json_loads(t) ==
    IF Len(t) < 2 \/ t[1].t # "[" \/ t[Len(t)].t # "]"
    THEN [ok |-> FALSE, v |-> <<>>]
    ELSE ParseItems(SubSeq(t, 2, Len(t) - 1))

\* The getter shared by User.tags and User.interests.
LoadList(text) ==
    LET parsed == json_loads(IF text = <<>> THEN json_dumps(<<>>) ELSE text)
    IN  IF parsed.ok THEN JList(parsed.v) ELSE JList(<<>>)

\* The setter normalising on the way in: lower-cased, duplicates dropped.
RECURSIVE Dedup(_)
Dedup(l) ==
    IF l = <<>> THEN <<>>
    ELSE LET front == Dedup(SubSeq(l, 1, Len(l) - 1))
             x == Lower(l[Len(l)])
         IN  IF \E i \in 1..Len(front) : front[i] = x THEN front
             ELSE Append(front, x)

StoreList_normalised(v) == json_dumps(Dedup(OrEmptyList(v)))

\* The setter shared by User.tags and User.interests: json.dumps(v or []).
StoreList(v) == json_dumps(OrEmptyList(v))

Tags(u) == LoadList(u.tags_json)

Interests(u) == LoadList(u.interests_json)

to_public_dict(u) ==
    [id |-> u.id, name |-> u.name, email |-> u.email, year |-> u.year,
     department |-> u.department, bio |-> u.bio, tags |-> Tags(u),
     interests |-> Interests(u), personality |-> u.personality]

(* ---------------------------------------------------------------------- *)
(* match_score                                                            *)
(* ---------------------------------------------------------------------- *)
\* personality_bonus without the two truthiness tests.
personality_bonus_unguarded(u, v) ==
    IF u.personality = v.personality THEN Frac(5, 100) ELSE Frac(0, 1)

personality_bonus(u, v) ==
    IF Truthy(u.personality) /\ Truthy(v.personality)
       /\ u.personality = v.personality
    THEN Frac(5, 100) ELSE Frac(0, 1)

\* raw_score with the two weights exchanged.
raw_score_swapped(tag_sim, interest_sim, bonus) ==
    FracMul(FracAdd(FracAdd(FracMul(Frac(4, 10), tag_sim),
                            FracMul(Frac(6, 10), interest_sim)),
                    bonus),
            Frac(100, 1))

raw_score(tag_sim, interest_sim, bonus) ==
    FracMul(FracAdd(FracAdd(FracMul(Frac(6, 10), tag_sim),
                            FracMul(Frac(4, 10), interest_sim)),
                    bonus),
            Frac(100, 1))

\* clamp_round without min(score, 100).
clamp_round_unclamped(score) == Round(score)

clamp_round(score) == Round(FracMin(score, Frac(100, 1)))

\* The locals of match_score and the value it returns.
match_score_frame(u, v) ==
    LET tag_sim == jaccard_similarity(Tags(u), Tags(v))
        interest_sim == jaccard_similarity(Interests(u), Interests(v))
        bonus == personality_bonus(u, v)
    IN  [tag_sim |-> tag_sim, interest_sim |-> interest_sim,
         personality_bonus |-> bonus,
         score |-> clamp_round(raw_score(tag_sim, interest_sim, bonus))]

match_score(u, v) == match_score_frame(u, v).score

(* ---------------------------------------------------------------------- *)
(* Specifications of the pure functions                                   *)
(* ---------------------------------------------------------------------- *)
NoReq == [op |-> "none"]

NoResp == [status |-> 0]

NoCall == [fn |-> "none"]

NoRet == [done |-> FALSE]

Labels == {"AI", "ai", "Go"}

ListArgs == {JNull} \cup {JList(l) : l \in SeqsUpTo(Labels, MaxListLen)}

InitJaccard ==
    /\ users = <<>> /\ nupd = 0 /\ req = NoReq /\ resp = NoResp /\ others = <<>>
    /\ call \in {[fn |-> "jaccard_similarity", a |-> a, b |-> b] :
                    a \in ListArgs, b \in ListArgs}
    /\ ret = NoRet

CallJaccard ==
    /\ call.fn = "jaccard_similarity" /\ ~ret.done
    /\ ret' = [done |-> TRUE, value |-> jaccard_similarity(call.a, call.b)]
    /\ UNCHANGED <<users, nupd, req, resp, others, call>>

NextJaccard == CallJaccard

SpecJaccard == InitJaccard /\ [][NextJaccard]_vars

TagLabels == {"Study Buddy", "Sports Partner"}

TagLists == SeqsUpTo(TagLabels, MaxTagLen)

InterestLists == {<<>>, <<"AI", "Football">>, <<"Football">>,
                  <<"football", "Chess", "ai">>}

Personalities == {JNull, JStr(""), JStr("INTJ"), JStr("intj")}

\* A User row as register builds it, with the given matchable attributes.
Profile(id, tags, interests, personality) ==
    [id |-> id, name |-> JStr("Aarav"), email |-> JStr("a@thapar.edu"),
     password_hash |-> JStr("hash(secret)"), year |-> JNull, department |-> JNull,
     bio |-> JNull, tags_json |-> StoreList(JList(tags)),
     interests_json |-> StoreList(JList(interests)), personality |-> personality]

InitScore ==
    /\ users = <<>> /\ nupd = 0 /\ req = NoReq /\ resp = NoResp /\ others = <<>>
    /\ call \in {[fn |-> "match_score", u |-> Profile(1, ut, ui, up),
                  v |-> Profile(2, vt, vi, vp)] :
                    ut \in TagLists, ui \in InterestLists, up \in Personalities,
                    vt \in TagLists, vi \in InterestLists, vp \in Personalities}
    /\ ret = NoRet

CallMatchScore ==
    /\ call.fn = "match_score" /\ ~ret.done
    /\ ret' = [done |-> TRUE] @@ match_score_frame(call.u, call.v)
    /\ UNCHANGED <<users, nupd, req, resp, others, call>>

NextScore == CallMatchScore

SpecScore == InitScore /\ [][NextScore]_vars

(* ---------------------------------------------------------------------- *)
(* The profile store and the request handlers                             *)
(* ---------------------------------------------------------------------- *)
DefaultLimit == 20

\* An optional integer query parameter (request.args.get(..., type=int)).
NoInt == [some |-> FALSE, v |-> 0]

SomeInt(n) == [some |-> TRUE, v |-> n]

\* str.strip on the strings of the model.
Strip(s) == CASE s = " Dev " -> "Dev"
              [] s = " b@thapar.edu" -> "b@thapar.edu"
              [] OTHER -> s

\* str.lower on the e-mail addresses of the model.
EmailLower(s) == CASE s = "A@thapar.edu" -> "a@thapar.edu"
                   [] OTHER -> s

\* s.endswith('@thapar.edu')
EndsWithThapar(s) ==
    s \in {"a@thapar.edu", "b@thapar.edu", " b@thapar.edu", "c@thapar.edu"}

generate_password_hash(p) == "hash(" \o p \o ")"

Credentials(name, email) ==
    [name |-> JStr(name), email |-> JStr(email), password |-> JStr("secret")]

\* The request bodies sent to POST /api/register.
RegisterBodies ==
    { Credentials("Aarav", "a@thapar.edu") @@
        [year |-> JStr("2"), bio |-> JStr("CS + football"),
         tags |-> JList(<<"Study Buddy", "Sports Partner">>),
         interests |-> JList(<<"AI", "Football">>)],
      Credentials(" Dev ", " b@thapar.edu") @@
        [tags |-> JList(<<"Study Buddy">>), interests |-> JList(<<"Football">>)],
      Credentials("Isha", "c@thapar.edu") @@
        [tags |-> JNull, personality |-> JStr("")],
      Credentials("Kabir", "b@thapar.edu") @@
        [department |-> JStr("CSE"), tags |-> JList(<<"AI", "ai">>),
         interests |-> JList(<<"Go">>), personality |-> JStr("INTJ")],
      Credentials("Meera", "A@thapar.edu") @@
        [tags |-> JList(<<"ai">>), interests |-> JList(<<"Go">>),
         personality |-> JStr("INTJ")],
      Credentials("Neil", "a@gmail.com"),
      Credentials("", "c@thapar.edu"),
      [name |-> JStr("Omar"), email |-> JStr("c@thapar.edu")] }

\* The request bodies sent to PUT /api/users/<id>.
UpdateBodies ==
    { <<>>,
      [name |-> JStr("Dev")],
      [name |-> JNull],
      [tags |-> JNull, personality |-> JStr("INTJ")],
      [tags |-> JList(<<"Go", "go">>), interests |-> JList(<<"AI">>)],
      [id |-> JStr("99"), email |-> JStr("z@thapar.edu")],
      [year |-> JStr("3"), department |-> JNull, bio |-> JStr("x"),
       interests |-> JNull] }

Ids == 1..Len(users)

\* The client sends a request once the previous response has reached it.
Idle == resp = NoResp

EmailTaken(e) == \E i \in Ids : users[i].email = JStr(e)

register(data) ==
    /\ Idle
    /\ req' = [op |-> "register", data |-> data]
    /\ others' = <<>>
    /\ UNCHANGED <<nupd, call, ret>>
    /\ IF ~(\A k \in {"name", "email", "password"} :
                k \in DOMAIN data /\ Truthy(data[k]))
       THEN /\ resp' = [status |-> 400,
                        error |-> "name, email, password are required"]
            /\ users' = users
       ELSE IF ~EndsWithThapar(EmailLower(data.email.s))
       THEN /\ resp' = [status |-> 400,
                        error |-> "Only thapar.edu email addresses are allowed"]
            /\ users' = users
       ELSE IF EmailTaken(data.email.s)
       THEN /\ resp' = [status |-> 409, error |-> "email already registered"]
            /\ users' = users
       ELSE LET user ==
                  [id |-> Len(users) + 1,
                   name |-> JStr(Strip(data.name.s)),
                   email |-> JStr(Strip(EmailLower(data.email.s))),
                   password_hash |-> JStr(generate_password_hash(data.password.s)),
                   year |-> Get(data, "year", JNull),
                   department |-> Get(data, "department", JNull),
                   bio |-> Get(data, "bio", JNull),
                   personality |-> Get(data, "personality", JNull),
                   tags_json |-> StoreList(Get(data, "tags", JList(<<>>))),
                   interests_json |-> StoreList(Get(data, "interests", JList(<<>>)))]
            IN  IF EmailTaken(user.email.s)
                \* db.commit() raises on the unique e-mail column.
                THEN /\ resp' = [status |-> 500, error |-> "IntegrityError"]
                     /\ users' = users
                ELSE /\ resp' = [status |-> 201, message |-> "registered",
                                 user |-> to_public_dict(user)]
                     /\ users' = Append(users, user)

get_user(user_id) ==
    /\ Idle
    /\ req' = [op |-> "get_user", user_id |-> user_id]
    /\ others' = <<>>
    /\ resp' = IF user_id \notin Ids
               THEN [status |-> 404, error |-> "user not found"]
               ELSE [status |-> 200, user |-> to_public_dict(users[user_id])]
    /\ UNCHANGED <<users, nupd, call, ret>>

\* ApplyPatch assigning tags and interests from data.get(...), named or not.
ApplyPatch_resetting(user, data) ==
    [user EXCEPT !.name = Get(data, "name", @),
                 !.year = Get(data, "year", @),
                 !.department = Get(data, "department", @),
                 !.bio = Get(data, "bio", @),
                 !.personality = Get(data, "personality", @),
                 !.tags_json = StoreList(Get(data, "tags", JNull)),
                 !.interests_json = StoreList(Get(data, "interests", JNull))]

\* The assignments update_user makes to the row.
ApplyPatch(user, data) ==
    [user EXCEPT !.name = Get(data, "name", @),
                 !.year = Get(data, "year", @),
                 !.department = Get(data, "department", @),
                 !.bio = Get(data, "bio", @),
                 !.personality = Get(data, "personality", @),
                 !.tags_json = IF "tags" \in DOMAIN data
                               THEN StoreList(data.tags) ELSE @,
                 !.interests_json = IF "interests" \in DOMAIN data
                                    THEN StoreList(data.interests) ELSE @]

update_user(user_id, data) ==
    /\ Idle
    /\ nupd < MaxUpdates
    /\ nupd' = nupd + 1
    /\ req' = [op |-> "update", user_id |-> user_id, data |-> data]
    /\ others' = <<>>
    /\ UNCHANGED <<call, ret>>
    /\ IF user_id \notin Ids
       THEN /\ resp' = [status |-> 404, error |-> "user not found"]
            /\ users' = users
       ELSE LET user == ApplyPatch(users[user_id], data)
            IN  IF user.name = JNull
                \* db.commit() raises on the NOT NULL name column.
                THEN /\ resp' = [status |-> 500, error |-> "IntegrityError"]
                     /\ users' = users
                ELSE /\ resp' = [status |-> 200, message |-> "updated",
                                 user |-> to_public_dict(user)]
                     /\ users' = [users EXCEPT ![user_id] = user]

\* InsertSorted putting x before the entries of equal score.
InsertSorted_before_ties(s, x) ==
    LET k == Cardinality({i \in 1..Len(s) : s[i].score > x.score})
    IN  SubSeq(s, 1, k) \o <<x>> \o SubSeq(s, k + 1, Len(s))

\* The place list.sort(key=score, reverse=True) gives x among the sorted s:
\* after every entry whose score is at least x's.
InsertSorted(s, x) ==
    LET k == Cardinality({i \in 1..Len(s) : s[i].score >= x.score})
    IN  SubSeq(s, 1, k) \o <<x>> \o SubSeq(s, k + 1, Len(s))

RECURSIVE SortByScoreDesc(_)
SortByScoreDesc(results) ==
    IF results = <<>> THEN <<>>
    ELSE InsertSorted(SortByScoreDesc(SubSeq(results, 1, Len(results) - 1)),
                      results[Len(results)])

\* Slice keeping one entry more than asked for.
Slice_one_more(results, limit) ==
    LET n == Len(results)
        stop == IF limit + 1 < n THEN limit + 1 ELSE n
    IN  SubSeq(results, 1, IF stop > 0 THEN stop ELSE 0)

\* results[:limit]
Slice(results, limit) ==
    LET n == Len(results)
        stop == IF limit >= 0
                THEN (IF limit < n THEN limit ELSE n)
                ELSE (IF n + limit > 0 THEN n + limit ELSE 0)
    IN  SubSeq(results, 1, stop)

\* The orders in which the query without ORDER BY may list the other rows.
Listings(me) ==
    LET rest == Ids \ {me}
    IN  {o \in [1..Cardinality(rest) -> rest] :
            \A i, j \in DOMAIN o : i # j => o[i] # o[j]}

match_for_user(user_id, limit_arg, listing) ==
    LET limit == IF limit_arg.some THEN limit_arg.v ELSE DefaultLimit
    IN  /\ Idle
        /\ req' = [op |-> "match", user_id |-> user_id, limit |-> limit_arg]
        /\ UNCHANGED <<users, nupd, call, ret>>
        /\ IF ~user_id.some \/ user_id.v = 0
           THEN /\ resp' = [status |-> 400, error |-> "user_id is required"]
                /\ others' = <<>>
           ELSE IF user_id.v \notin Ids
           THEN /\ resp' = [status |-> 404, error |-> "user not found"]
                /\ others' = <<>>
           ELSE LET me == users[user_id.v]
                    results == [i \in DOMAIN listing |->
                                  [user |-> to_public_dict(users[listing[i]]),
                                   score |-> match_score(me, users[listing[i]])]]
                IN  /\ others' = listing
                    /\ resp' = [status |-> 200,
                                body |-> Slice(SortByScoreDesc(results), limit)]

UserIdArgs == {NoInt} \cup {SomeInt(n) : n \in 0..(Len(users) + 1)}

LimitArgs == {NoInt} \cup {SomeInt(n) : n \in -1..2}

Init ==
    /\ users = <<>> /\ nupd = 0 /\ req = NoReq /\ resp = NoResp /\ others = <<>>
    /\ call = NoCall /\ ret = NoRet

Register == \E data \in RegisterBodies : register(data)

GetUser == \E user_id \in 0..(Len(users) + 1) : get_user(user_id)

UpdateUser ==
    \E user_id \in 0..(Len(users) + 1), data \in UpdateBodies :
        update_user(user_id, data)

MatchForUser ==
    \E user_id \in UserIdArgs, limit \in LimitArgs :
        \E listing \in (IF user_id.some /\ user_id.v \in Ids
                        THEN Listings(user_id.v) ELSE {<<>>}) :
            match_for_user(user_id, limit, listing)

\* The response reaches the client.
Deliver ==
    /\ resp # NoResp
    /\ req' = NoReq /\ resp' = NoResp /\ others' = <<>>
    /\ UNCHANGED <<users, nupd, call, ret>>

Next == Register \/ GetUser \/ UpdateUser \/ MatchForUser \/ Deliver

Spec == Init /\ [][Next]_vars

(* ---------------------------------------------------------------------- *)
(* What the claims say, stated apart from the code's definitions          *)
(* ---------------------------------------------------------------------- *)
\* The set of lower-cased entries of a list (empty for None).
LoweredEntries(j) == {Lower(j.l[i]) : i \in 1..Len(j.l)}

\* |A \cap B| / |A \cup B|, and 0.0 when both are empty.
Overlap(A, B) ==
    IF A \cup B = {} THEN Frac(0, 1)
    ELSE Frac(Cardinality(A \cap B), Cardinality(A \cup B))

\* Present: a non-empty string.
Present(p) == p.k = "str" /\ p.s # ""

SamePersonality(u, v) ==
    Present(u.personality) /\ Present(v.personality)
    /\ u.personality.s = v.personality.s

TagSet(u) == LoweredEntries(to_public_dict(u).tags)

InterestSet(u) == LoweredEntries(to_public_dict(u).interests)

\* round(min(0.6 * tagSim + 0.4 * interestSim + personalityBonus, 1.0) * 100)
StatedScore(u, v) ==
    LET raw == FracAdd(FracAdd(FracMul(Frac(6, 10), Overlap(TagSet(u), TagSet(v))),
                               FracMul(Frac(4, 10),
                                       Overlap(InterestSet(u), InterestSet(v)))),
                       IF SamePersonality(u, v) THEN Frac(5, 100) ELSE Frac(0, 1))
    IN  Round(FracMul(FracMin(raw, Frac(1, 1)), Frac(100, 1)))

HalfOverlap(A, B) == 2 * Cardinality(A \cap B) = Cardinality(A \cup B) /\ A \cup B # {}

NoPersonality(u) == ~Present(u.personality)

ScoreDone == call.fn = "match_score" /\ ret.done

\* C1 as stated: the score is round(min(0.6 * tagSim + 0.4 * interestSim +
\* personalityBonus, 1.0) * 100); half-overlapping tags and interests with no
\* personality give 50, identical tags and interests with the same personality
\* give 100, disjoint sets give 0, and a subject with empty tags and interests
\* gives 0 against a non-empty candidate.
C1_AsStated ==
    ScoreDone =>
        LET u == call.u
            v == call.v
        IN  /\ ret.score = StatedScore(u, v)
            /\ HalfOverlap(TagSet(u), TagSet(v))
               /\ HalfOverlap(InterestSet(u), InterestSet(v))
               /\ NoPersonality(u) /\ NoPersonality(v) => ret.score = 50
            /\ TagSet(u) = TagSet(v) /\ InterestSet(u) = InterestSet(v)
               /\ SamePersonality(u, v) => ret.score = 100
            /\ TagSet(u) \cap TagSet(v) = {} /\ InterestSet(u) \cap InterestSet(v) = {}
               => ret.score = 0
            /\ TagSet(u) = {} /\ InterestSet(u) = {}
               /\ TagSet(v) # {} /\ InterestSet(v) # {} => ret.score = 0

\* C1 (amended): the score is round(min(0.6 * tagSim + 0.4 * interestSim +
\* personalityBonus, 1.0) * 100); half-overlapping tags and interests with no
\* personality give 50, identical non-empty tags and interests with the same
\* personality give 100, and, when the two profiles do not share a personality,
\* disjoint sets give 0 and a subject with empty tags and interests gives 0
\* against a non-empty candidate (with a shared personality these two give 5).
C1_MatchScoreFormula ==
    ScoreDone =>
        LET u == call.u
            v == call.v
        IN  /\ ret.score = StatedScore(u, v)
            /\ HalfOverlap(TagSet(u), TagSet(v))
               /\ HalfOverlap(InterestSet(u), InterestSet(v))
               /\ NoPersonality(u) /\ NoPersonality(v) => ret.score = 50
            /\ TagSet(u) = TagSet(v) /\ TagSet(u) # {}
               /\ InterestSet(u) = InterestSet(v) /\ InterestSet(u) # {}
               /\ SamePersonality(u, v) => ret.score = 100
            /\ TagSet(u) \cap TagSet(v) = {} /\ InterestSet(u) \cap InterestSet(v) = {}
               => ret.score = (IF SamePersonality(u, v) THEN 5 ELSE 0)
            /\ TagSet(u) = {} /\ InterestSet(u) = {}
               /\ TagSet(v) # {} /\ InterestSet(v) # {}
               => ret.score = (IF SamePersonality(u, v) THEN 5 ELSE 0)

\* A subject with no tags and no interests scored against a non-empty candidate
\* of the same personality.
C1_Witness ==
    /\ ScoreDone
    /\ TagSet(call.u) = {} /\ InterestSet(call.u) = {}
    /\ TagSet(call.v) # {} /\ InterestSet(call.v) # {}
    /\ SamePersonality(call.u, call.v)
    /\ ret.score = 5

\* C2: every score match_score returns is an integer between 0 and 100, also
\* when the personality bonus lifts the raw sum above 1.0.
C2_ScoreInRange == ScoreDone => ret.score \in 0..100

\* Full overlap plus the bonus: the raw sum is 1.05.
C2_Witness ==
    /\ ScoreDone
    /\ FracEq(ret.tag_sim, Frac(1, 1)) /\ FracEq(ret.interest_sim, Frac(1, 1))
    /\ FracEq(ret.personality_bonus, Frac(5, 100))
    /\ ret.score = 100

JaccardDone == call.fn = "jaccard_similarity" /\ ret.done

\* C3: jaccard_similarity(a, b) is |A \cap B| / |A \cup B| over the sets of
\* lower-cased entries, exactly 0.0 when both are empty, 1.0 for a non-empty
\* list against itself, and the same with its arguments exchanged.
C3_Jaccard ==
    JaccardDone =>
        LET A == LoweredEntries(call.a)
            B == LoweredEntries(call.b)
        IN  /\ FracEq(ret.value, Overlap(A, B))
            /\ A = {} /\ B = {} => ret.value.n = 0
            /\ call.a = call.b /\ A # {} => ret.value.n = ret.value.d
            /\ FracEq(ret.value, jaccard_similarity(call.b, call.a))

\* Entries differing only in case, and a duplicate, against a single entry.
C3_Witness ==
    /\ JaccardDone
    /\ call.a = JList(<<"AI", "ai", "Go">>) /\ call.b = JList(<<"ai">>)
    /\ FracEq(ret.value, Frac(1, 2))

\* C10: the personality bonus is 0.05 exactly when both personalities are
\* present and are the same string, compared without case-folding, and 0.0
\* otherwise; two profiles without a personality (None or "") get no bonus.
C10_PersonalityBonus ==
    ScoreDone =>
        /\ SamePersonality(call.u, call.v) => ret.personality_bonus = Frac(5, 100)
        /\ ~SamePersonality(call.u, call.v) => ret.personality_bonus.n = 0
        /\ NoPersonality(call.u) /\ NoPersonality(call.v)
           => ret.score = Round(raw_score(ret.tag_sim, ret.interest_sim, Frac(0, 1)))

\* Two personalities that differ only in case: no bonus.
C10_Witness ==
    /\ ScoreDone
    /\ call.u.personality = JStr("INTJ") /\ call.v.personality = JStr("intj")
    /\ ret.personality_bonus.n = 0

(* ---------------------------------------------------------------------- *)
(* Claims about the handlers                                              *)
(* ---------------------------------------------------------------------- *)
MatchOk == req.op = "match" /\ resp.status = 200

\* The position of user id in the listing the store gave.
ListedAt(id) == CHOOSE i \in DOMAIN others : others[i] = id

\* C4: the list a match request returns is ordered by score, highest first, and
\* results of equal score keep the order in which the store listed them.
C4_SortedStable ==
    MatchOk =>
        \A i, j \in DOMAIN resp.body :
            i < j =>
                /\ resp.body[i].score >= resp.body[j].score
                /\ resp.body[i].score = resp.body[j].score
                   => ListedAt(resp.body[i].user.id) < ListedAt(resp.body[j].user.id)

\* Two results of equal score, listed by the store against the order of ids.
C4_Witness ==
    /\ MatchOk
    /\ Len(resp.body) = 2
    /\ resp.body[1].score = resp.body[2].score
    /\ resp.body[1].user.id > resp.body[2].user.id

\* C5 as stated: a match request with limit <= 0 for an existing subject
\* returns an empty list, whatever the number of candidates.
C5_NonPositiveLimitEmpty ==
    MatchOk /\ req.limit.some /\ req.limit.v <= 0 => resp.body = <<>>

\* The limit in force: the caller's, or 20.
LimitInForce == IF req.limit.some THEN req.limit.v ELSE 20

\* The candidates scored in listing order, then ranked: the arrangement that is
\* ordered by score, highest first, with ties in listing order.
Ranked ==
    LET me == users[req.user_id.v]
        n == Len(others)
        arrangement ==
            CHOOSE p \in [1..n -> 1..n] :
                /\ \A i, j \in 1..n : i # j => p[i] # p[j]
                /\ \A i, j \in 1..n :
                     i < j =>
                        \/ StatedScore(me, users[others[p[i]]])
                             > StatedScore(me, users[others[p[j]]])
                        \/ /\ StatedScore(me, users[others[p[i]]])
                                = StatedScore(me, users[others[p[j]]])
                           /\ p[i] < p[j]
    IN  [i \in 1..n |-> users[others[arrangement[i]]].id]

DistinctLowered(l) ==
    \A i, j \in 1..Len(l) : i # j => Lower(l[i]) # Lower(l[j])

ReadsBack(v) == IF v.k = "list" THEN v ELSE JList(<<>>)

KeyOf(column) == CASE column = "tags_json" -> "tags"
                   [] column = "interests_json" -> "interests"
                   [] OTHER -> column

Columns == {"id", "name", "email", "password_hash", "year", "department", "bio",
            "tags_json", "interests_json", "personality"}

\* C8: an update of an existing user changes only the fields the patch names,
\* never the id and never another user's record; an update of an id that does
\* not exist reports not-found and leaves the store unchanged.
C8_UpdateFrame ==
    [][req'.op = "update" =>
         LET id == req'.user_id
         IN  IF id \notin Ids
             THEN resp'.status = 404 /\ users' = users
             ELSE /\ Len(users') = Len(users)
                  /\ \A i \in Ids : i # id => users'[i] = users[i]
                  /\ users'[id].id = users[id].id
                  /\ \A c \in Columns :
                        KeyOf(c) \notin DOMAIN req'.data
                        => users'[id][c] = users[id][c]]_vars

\* An update naming tags and personality only, applied to a user who has
\* interests, with another user in the store.
C8_Witness ==
    /\ req.op = "update" /\ resp.status = 200
    /\ DOMAIN req.data = {"tags", "personality"}
    /\ resp.user.interests # JList(<<>>)
    /\ Len(users) >= 2

\* C9 as stated: with a limit at least the number of other users, the result
\* has exactly one entry for every stored user other than the subject and none
\* for the subject; for a subject that does not exist the request yields a
\* not-found error and no scored results.
C9_AllCandidatesOrNotFound ==
    req.op = "match" /\ req.user_id.some =>
        IF req.user_id.v \in Ids
        THEN /\ resp.status = 200
             /\ LimitInForce >= Len(users) - 1 =>
                  /\ Len(resp.body) = Len(users) - 1
                  /\ {resp.body[i].user.id : i \in DOMAIN resp.body}
                       = Ids \ {req.user_id.v}
        ELSE resp.status = 404 /\ others = <<>>

====
